---- MODULE Spec2Model ----
(***************************************************************************)
(* Model of qutebrowser's StatusBar (qutebrowser/widgets/statusbar/bar.py): *)
(* the pending-message queue _text_queue, the timer _text_pop_timer, the    *)
(* error property, the two texts of the Text widget and the cmd/txt stack.  *)
(***************************************************************************)
EXTENDS Integers, Sequences, FiniteSets, TLC

\* ---------------------------------------------------------------- bounds
\* At most MaxMsgs messages are enqueued in one behaviour (disp_error and
\* disp_temp_text together), which keeps the history variables finite.
MaxMsgs == 2

\* ---------------------------------------------------------------- inputs
\* Texts passed to disp_error, disp_temp_text and set_text.
Texts == {"a", "b"}

\* Values on_statusbar_message receives: Qt emits it with '' as well.
JsVals == {"", "js"}

\* Modes passed to on_mode_entered / on_mode_left.
Modes == {"normal", "insert"}

\* str.upper() on the mode names.
upper(mode) ==
    CASE mode = "normal" -> "NORMAL"
      [] mode = "insert" -> "INSERT"
      [] OTHER -> mode

\* "-- {} MODE --".format(mode.upper())
ModeText(mode) == "-- " \o upper(mode) \o " MODE --"

\* Values config.get('general', 'message-timeout') can return.
Timeouts == {2000, 5000}

\* (section, option) pairs on_config_changed is emitted with.
ConfigKeys == {<<"general", "message-timeout">>, <<"general", "editor">>,
               <<"colors", "message-timeout">>}

VARIABLES
    text_queue,      \* self._text_queue: sequence of <<error, text>>
    timer_active,    \* self._text_pop_timer.isActive()
    timer_interval,  \* self._text_pop_timer.interval()
    error,           \* self._error
    temptext,        \* self.txt.temptext
    normaltext,      \* self.txt.normaltext
    current,         \* self._stack.currentWidget(): "cmd" or "txt"
    message_timeout, \* the config value general/message-timeout
    enqueued,        \* history: every pair appended to the queue, in order
    displayed,       \* history: every pair _pop_text took from the queue
    tempsrc,         \* history: who wrote temptext last
    lastop,          \* history: the handler that ran last, with its argument
                     \* (for _hide_cmd_widget: whether it took the branch
                     \* that pops)
    passthrough,     \* modeman.instance().passthrough: the modes registered
                     \* as passthrough modes when the statusbar is built
    last_set,        \* history: <<val>> for the last set_text(val), <<>>
                     \* before the first
    util             \* a call of one of the helpers of qutebrowser.utils
                     \* that the unit tests exercise (elide, ceil_log,
                     \* fake_io): its arguments, position and outcome

vars == <<text_queue, timer_active, timer_interval, error, temptext,
          normaltext, current, message_timeout, enqueued, displayed,
          tempsrc, lastop, passthrough, last_set, util>>

\* The part of the statusbar _pop_text and its callers work on.
Bar == [text_queue |-> text_queue, timer_active |-> timer_active,
        error |-> error, temptext |-> temptext, displayed |-> displayed,
        tempsrc |-> tempsrc]

SetBar(s) ==
    /\ text_queue' = s.text_queue
    /\ timer_active' = s.timer_active
    /\ error' = s.error
    /\ temptext' = s.temptext
    /\ displayed' = s.displayed
    /\ tempsrc' = s.tempsrc

Op(name, arg) == [name |-> name, arg |-> arg]

\* _pop_text with pop() for popleft(): takes the pair enqueued last.
pop_text_lifo(s) ==
    IF s.text_queue = <<>>
    THEN [s EXCEPT !.error = FALSE, !.temptext = "",
                   !.timer_active = FALSE, !.tempsrc = "cleared"]
    ELSE LET n == Len(s.text_queue) IN
         [s EXCEPT !.text_queue = SubSeq(s.text_queue, 1, n - 1),
                   !.error = s.text_queue[n][1],
                   !.temptext = s.text_queue[n][2],
                   !.displayed = Append(s.displayed, s.text_queue[n]),
                   !.tempsrc = "queue"]

\* _pop_text without "self.error = error".
pop_text_keeps_error(s) ==
    IF s.text_queue = <<>>
    THEN [s EXCEPT !.error = FALSE, !.temptext = "",
                   !.timer_active = FALSE, !.tempsrc = "cleared"]
    ELSE [s EXCEPT !.text_queue = Tail(s.text_queue),
                   !.temptext = Head(s.text_queue)[2],
                   !.displayed = Append(s.displayed, Head(s.text_queue)),
                   !.tempsrc = "queue"]

\* _pop_text without "self._text_pop_timer.stop()" in the except branch.
pop_text_nostop(s) ==
    IF s.text_queue = <<>>
    THEN [s EXCEPT !.error = FALSE, !.temptext = "", !.tempsrc = "cleared"]
    ELSE [s EXCEPT !.text_queue = Tail(s.text_queue),
                   !.error = Head(s.text_queue)[1],
                   !.temptext = Head(s.text_queue)[2],
                   !.displayed = Append(s.displayed, Head(s.text_queue)),
                   !.tempsrc = "queue"]

\* StatusBar._pop_text: popleft(); on IndexError reset error and temptext and
\* stop the timer, otherwise display the popped pair.
_pop_text(s) ==
    IF s.text_queue = <<>>
    THEN [s EXCEPT !.error = FALSE, !.temptext = "",
                   !.timer_active = FALSE, !.tempsrc = "cleared"]
    ELSE [s EXCEPT !.text_queue = Tail(s.text_queue),
                   !.error = Head(s.text_queue)[1],
                   !.temptext = Head(s.text_queue)[2],
                   !.displayed = Append(s.displayed, Head(s.text_queue)),
                   !.tempsrc = "queue"]

\* No helper is being called.
NoUtil == [fn |-> "none"]

\* The statusbar after StatusBar.__init__.
StatusBarInit ==
    /\ text_queue = <<>>
    /\ timer_active = FALSE
    /\ message_timeout \in Timeouts
    /\ timer_interval = message_timeout
    /\ error = FALSE
    /\ temptext = ""
    /\ normaltext = ""
    /\ current = "txt"
    /\ enqueued = <<>>
    /\ displayed = <<>>
    /\ tempsrc = "init"
    /\ lastop = Op("__init__", "")
    /\ passthrough \in SUBSET Modes
    /\ last_set = <<>>

Init ==
    /\ StatusBarInit
    /\ util = NoUtil

\* The timer's timeout signal, connected to _pop_text; it fires only while
\* the timer is active.
timeout ==
    /\ timer_active
    /\ SetBar(_pop_text(Bar))
    /\ lastop' = Op("timeout", "")
    /\ UNCHANGED <<passthrough, util>>
    /\ UNCHANGED <<timer_interval, normaltext, current, message_timeout,
                   enqueued, last_set>>

\* _show_cmd_widget that also drops the pending messages.
show_cmd_widget_clears ==
    /\ timer_active' = FALSE
    /\ current' = "cmd"
    /\ text_queue' = <<>>
    /\ lastop' = Op("_show_cmd_widget", "")
    /\ UNCHANGED <<passthrough, util>>
    /\ UNCHANGED <<timer_interval, error, temptext, normaltext,
                   message_timeout, enqueued, displayed, tempsrc,
                   last_set>>

\* _show_cmd_widget that also resets the error flag.
show_cmd_widget_resets ==
    /\ timer_active' = FALSE
    /\ current' = "cmd"
    /\ error' = FALSE
    /\ lastop' = Op("_show_cmd_widget", "")
    /\ UNCHANGED <<passthrough, util>>
    /\ UNCHANGED <<text_queue, timer_interval, temptext, normaltext,
                   message_timeout, enqueued, displayed, tempsrc,
                   last_set>>

\* StatusBar._show_cmd_widget: stop the timer, raise the command widget.
_show_cmd_widget ==
    /\ timer_active' = FALSE
    /\ current' = "cmd"
    /\ lastop' = Op("_show_cmd_widget", "")
    /\ UNCHANGED <<passthrough, util>>
    /\ UNCHANGED <<text_queue, timer_interval, error, temptext, normaltext,
                   message_timeout, enqueued, displayed, tempsrc,
                   last_set>>

\* _hide_cmd_widget without "self._text_pop_timer.start()".
hide_cmd_bar_nostart(s) ==
    IF s.text_queue # <<>> /\ ~s.timer_active
    THEN _pop_text(s)
    ELSE s

\* _hide_cmd_widget without "and not self._text_pop_timer.isActive()".
hide_cmd_bar_always(s) ==
    IF s.text_queue # <<>>
    THEN [_pop_text(s) EXCEPT !.timer_active = TRUE]
    ELSE s

\* The body of StatusBar._hide_cmd_widget on the part _pop_text works on:
\* with pending messages and a stopped timer, pop one and start the timer.
hide_cmd_bar(s) ==
    IF s.text_queue # <<>> /\ ~s.timer_active
    THEN [_pop_text(s) EXCEPT !.timer_active = TRUE]
    ELSE s

\* StatusBar._hide_cmd_widget: the above, then raise the text widget.
_hide_cmd_widget ==
    /\ SetBar(hide_cmd_bar(Bar))
    /\ current' = "txt"
    /\ lastop' = Op("_hide_cmd_widget",
                    IF text_queue # <<>> /\ ~timer_active THEN "popped"
                                                          ELSE "")
    /\ UNCHANGED <<passthrough, util>>
    /\ UNCHANGED <<timer_interval, normaltext, message_timeout, enqueued,
                   last_set>>

\* deque.appendleft for deque.append.
appendleft(q, item) == <<item>> \o q

\* What disp_error and disp_temp_text do to the queue: deque.append.
append(q, item) == Append(q, item)

\* StatusBar.disp_error(text)
disp_error(text) ==
    /\ Len(enqueued) < MaxMsgs
    /\ text_queue' = append(text_queue, <<TRUE, text>>)
    /\ timer_active' = TRUE
    /\ enqueued' = Append(enqueued, <<TRUE, text>>)
    /\ lastop' = Op("disp_error", text)
    /\ UNCHANGED <<passthrough, util>>
    /\ UNCHANGED <<timer_interval, error, temptext, normaltext, current,
                   message_timeout, displayed, tempsrc, last_set>>

\* disp_temp_text without "self._text_pop_timer.start()".
disp_temp_text_nostart(text) ==
    /\ Len(enqueued) < MaxMsgs
    /\ text_queue' = append(text_queue, <<FALSE, text>>)
    /\ enqueued' = Append(enqueued, <<FALSE, text>>)
    /\ lastop' = Op("disp_temp_text", text)
    /\ UNCHANGED <<passthrough, util>>
    /\ UNCHANGED <<timer_active, timer_interval, error, temptext, normaltext,
                   current, message_timeout, displayed, tempsrc, last_set>>

\* StatusBar.disp_temp_text(text)
disp_temp_text(text) ==
    /\ Len(enqueued) < MaxMsgs
    /\ text_queue' = append(text_queue, <<FALSE, text>>)
    /\ timer_active' = TRUE
    /\ enqueued' = Append(enqueued, <<FALSE, text>>)
    /\ lastop' = Op("disp_temp_text", text)
    /\ UNCHANGED <<passthrough, util>>
    /\ UNCHANGED <<timer_interval, error, temptext, normaltext, current,
                   message_timeout, displayed, tempsrc, last_set>>

\* StatusBar.set_text(val)
set_text(val) ==
    /\ normaltext' = val
    /\ last_set' = <<val>>
    /\ lastop' = Op("set_text", val)
    /\ UNCHANGED <<passthrough, util>>
    /\ UNCHANGED <<text_queue, timer_active, timer_interval, error, temptext,
                   current, message_timeout, enqueued, displayed, tempsrc>>

\* on_mode_entered without ".upper()".
on_mode_entered_lower(mode) ==
    /\ normaltext' = IF mode \in passthrough
                        THEN "-- " \o mode \o " MODE --"
                        ELSE normaltext
    /\ lastop' = Op("on_mode_entered", mode)
    /\ UNCHANGED <<passthrough, util>>
    /\ UNCHANGED <<text_queue, timer_active, timer_interval, error, temptext,
                   current, message_timeout, enqueued, displayed, tempsrc,
                   last_set>>

\* StatusBar.on_mode_entered(mode)
on_mode_entered(mode) ==
    /\ normaltext' = IF mode \in passthrough THEN ModeText(mode)
                                             ELSE normaltext
    /\ lastop' = Op("on_mode_entered", mode)
    /\ UNCHANGED <<passthrough, util>>
    /\ UNCHANGED <<text_queue, timer_active, timer_interval, error, temptext,
                   current, message_timeout, enqueued, displayed, tempsrc,
                   last_set>>

\* on_mode_left without the passthrough test.
on_mode_left_always(mode) ==
    /\ normaltext' = ""
    /\ lastop' = Op("on_mode_left", mode)
    /\ UNCHANGED <<passthrough, util>>
    /\ UNCHANGED <<text_queue, timer_active, timer_interval, error, temptext,
                   current, message_timeout, enqueued, displayed, tempsrc,
                   last_set>>

\* StatusBar.on_mode_left(mode)
on_mode_left(mode) ==
    /\ normaltext' = IF mode \in passthrough THEN "" ELSE normaltext
    /\ lastop' = Op("on_mode_left", mode)
    /\ UNCHANGED <<passthrough, util>>
    /\ UNCHANGED <<text_queue, timer_active, timer_interval, error, temptext,
                   current, message_timeout, enqueued, displayed, tempsrc,
                   last_set>>

\* on_statusbar_message without "if val".
on_statusbar_message_unguarded(val) ==
    /\ temptext' = val
    /\ tempsrc' = "js"
    /\ lastop' = Op("on_statusbar_message", val)
    /\ UNCHANGED <<passthrough, util>>
    /\ UNCHANGED <<text_queue, timer_active, timer_interval, error,
                   normaltext, current, message_timeout, enqueued, displayed,
                   last_set>>

\* StatusBar.on_statusbar_message(val): an empty val is ignored.
on_statusbar_message(val) ==
    /\ temptext' = IF val # "" THEN val ELSE temptext
    /\ tempsrc' = IF val # "" THEN "js" ELSE tempsrc
    /\ lastop' = Op("on_statusbar_message", val)
    /\ UNCHANGED <<passthrough, util>>
    /\ UNCHANGED <<text_queue, timer_active, timer_interval, error,
                   normaltext, current, message_timeout, enqueued, displayed,
                   last_set>>

\* on_config_changed with "or" for "and".
on_config_changed_or(section, option) ==
    /\ timer_interval' =
          IF section = "general" \/ option = "message-timeout"
          THEN message_timeout ELSE timer_interval
    /\ lastop' = Op("on_config_changed", section \o "/" \o option)
    /\ UNCHANGED <<passthrough, util>>
    /\ UNCHANGED <<text_queue, timer_active, error, temptext, normaltext,
                   current, message_timeout, enqueued, displayed, tempsrc,
                   last_set>>

\* StatusBar.on_config_changed(section, option)
on_config_changed(section, option) ==
    /\ timer_interval' =
          IF section = "general" /\ option = "message-timeout"
          THEN message_timeout ELSE timer_interval
    /\ lastop' = Op("on_config_changed", section \o "/" \o option)
    /\ UNCHANGED <<passthrough, util>>
    /\ UNCHANGED <<text_queue, timer_active, error, temptext, normaltext,
                   current, message_timeout, enqueued, displayed, tempsrc,
                   last_set>>

\* The configuration is edited: config.get('general', 'message-timeout')
\* returns v from now on.  The statusbar hears of it by on_config_changed.
config_set(v) ==
    /\ message_timeout # v
    /\ message_timeout' = v
    /\ lastop' = Op("config_set", "")
    /\ UNCHANGED <<passthrough, util>>
    /\ UNCHANGED <<text_queue, timer_active, timer_interval, error, temptext,
                   normaltext, current, enqueued, displayed, tempsrc,
                   last_set>>

Next ==
    \/ timeout
    \/ _show_cmd_widget
    \/ _hide_cmd_widget
    \/ \E text \in Texts : disp_error(text)
    \/ \E text \in Texts : disp_temp_text(text)
    \/ \E val \in Texts \cup {""} : set_text(val)
    \/ \E mode \in Modes : on_mode_entered(mode)
    \/ \E mode \in Modes : on_mode_left(mode)
    \/ \E val \in JsVals : on_statusbar_message(val)
    \/ \E key \in ConfigKeys : on_config_changed(key[1], key[2])
    \/ \E v \in Timeouts : config_set(v)

Spec == Init /\ [][Next]_vars

\* The event loop delivers the timeout of an active timer.
FairSpec == Spec /\ WF_vars(timeout)

\* disp_error(text) or disp_temp_text(text) called after the MaxMsgs
\* messages that the histories record, while one of those is still pending.
\* The new pair queues behind the recorded ones, so until they are all
\* popped the queue is non-empty with the same head either way and the call
\* shows only in its "self._text_pop_timer.start()".
disp_later(text) ==
    /\ Len(enqueued) = MaxMsgs
    /\ text_queue # <<>>
    /\ timer_active' = TRUE
    /\ lastop' = Op("disp_later", text)
    /\ UNCHANGED <<passthrough, util>>
    /\ UNCHANGED <<text_queue, timer_interval, error, temptext, normaltext,
                   current, message_timeout, enqueued, displayed, tempsrc,
                   last_set>>

\* The statusbar with messages that keep being enqueued.
StreamNext ==
    \/ Next
    \/ \E text \in Texts : disp_later(text)

StreamSpec == Init /\ [][StreamNext]_vars /\ WF_vars(timeout)

\* ================================================================ utils
\* Helpers of qutebrowser.utils, known here by their unit tests
\* (tests/unit/utils/test_utils.py).  Strings are sequences of characters.

\* The statusbar variables, which a helper call leaves alone.
bar_vars == <<text_queue, timer_active, timer_interval, error, temptext,
              normaltext, current, message_timeout, enqueued, displayed,
              tempsrc, lastop, passthrough, last_set>>

\* Outcomes of a call.
Return(value) == [kind |-> "return", value |-> value]
Raise(exc) == [kind |-> "raise", exc |-> exc]
Pending == [kind |-> "pending"]

\* ---------------------------------------------------------------- elide
\* Largest length passed to elide.
MaxElideLength == 4

\* ELLIPSIS = '…', one character.
ELLIPSIS == "U+2026"

\* The text of TestEliding.test_elided.
FOOBAR == <<"f", "o", "o", "b", "a", "r">>

\* Texts passed to elide: the substrings of 'foobar', '' and 'foo' included.
ElideTexts ==
    {SubSeq(FOOBAR, i, j) : i \in 1..Len(FOOBAR), j \in 0..Len(FOOBAR)}

\* Lengths passed to elide, invalid ones included.
ElideLengths == (0 - 1)..MaxElideLength

\* elide that keeps length characters before the ellipsis.
elide_one_more(text, length) ==
    IF length < 1 THEN Raise("ValueError")
    ELSE IF Len(text) <= length THEN Return(text)
    ELSE Return(SubSeq(text, 1, length) \o <<ELLIPSIS>>)

\* utils.elide(text, length)
elide(text, length) ==
    IF length < 1 THEN Raise("ValueError")
    ELSE IF Len(text) <= length THEN Return(text)
    ELSE Return(SubSeq(text, 1, length - 1) \o <<ELLIPSIS>>)

ElideInit ==
    /\ StatusBarInit
    /\ util \in [fn : {"elide"}, pc : {"call"}, text : ElideTexts,
                 length : ElideLengths, out : {Pending}]

\* The call utils.elide(text, length) of the tests.
elide_call ==
    /\ util.fn = "elide"
    /\ util.pc = "call"
    /\ util' = [util EXCEPT !.pc = "done",
                            !.out = elide(util.text, util.length)]
    /\ UNCHANGED bar_vars

ElideSpec == ElideInit /\ [][elide_call]_vars

\* ---------------------------------------------------------------- ceil_log
\* Largest number and largest base passed to ceil_log.
MaxNumber == 130
MaxBase == 6

\* Numbers and bases of test_ceil_log_hypothesis and test_ceil_log_invalid:
\* valid and invalid ones, (125, 5), (64, 0), (0, 64), (64, -1), (-1, 64)
\* and (1, 1) among them.
CeilLogNumbers == (0 - 1)..MaxNumber
CeilLogBases == ((0 - 1)..MaxBase) \cup {64}

\* The loop of ceil_log with "accum <= number" for "accum < number".
RECURSIVE ceil_log_loop_le(_, _, _, _)
ceil_log_loop_le(number, base, result, accum) ==
    IF accum <= number
    THEN ceil_log_loop_le(number, base, result + 1, accum * base)
    ELSE result

\* The loop of ceil_log: multiply accum by base until it reaches number.
RECURSIVE ceil_log_loop(_, _, _, _)
ceil_log_loop(number, base, result, accum) ==
    IF accum < number
    THEN ceil_log_loop(number, base, result + 1, accum * base)
    ELSE result

\* ceil_log that counts one step too many when number is a power of base.
ceil_log_le(number, base) ==
    IF number < 1 \/ base < 2 THEN Raise("ValueError")
    ELSE Return(ceil_log_loop_le(number, base, 1, base))

\* utils.ceil_log(number, base), in integer arithmetic
ceil_log(number, base) ==
    IF number < 1 \/ base < 2 THEN Raise("ValueError")
    ELSE Return(ceil_log_loop(number, base, 1, base))

CeilLogInit ==
    /\ StatusBarInit
    /\ util \in [fn : {"ceil_log"}, pc : {"call"}, number : CeilLogNumbers,
                 base : CeilLogBases, out : {Pending}]

\* The call utils.ceil_log(number, base) of the tests.
ceil_log_call ==
    /\ util.fn = "ceil_log"
    /\ util.pc = "call"
    /\ util' = [util EXCEPT !.pc = "done",
                            !.out = ceil_log(util.number, util.base)]
    /\ UNCHANGED bar_vars

CeilLogSpec == CeilLogInit /\ [][ceil_log_call]_vars

\* ---------------------------------------------------------------- fake_io
\* At most MaxWrites writes to sys.stdout / sys.stderr in one behaviour.
MaxWrites == 3

\* What the tests write.
IoTexts == {"hello", "world"}

\* The two names in sys that fake_io rebinds.
StreamNames == {"stdout", "stderr"}

\* The stream objects: the ones sys had before the block, the FakeIOStreams
\* of fake_io, and the io.StringIO the tests put in their place.
RealStream(name) == "real_" \o name
FakeStream(name) == "fake_" \o name
NewStream(name) == "new_" \o name
Streams == {RealStream(n) : n \in StreamNames}
             \cup {NewStream(n) : n \in StreamNames}

FakeIoInit ==
    /\ StatusBarInit
    /\ util = [fn |-> "fake_io", pc |-> "before",
               sys |-> [n \in StreamNames |-> RealStream(n)],
               old |-> [n \in StreamNames |-> "unset"],
               data |-> <<>>,
               content |-> [st \in Streams |-> <<>>],
               log |-> <<>>,
               replaced |-> [n \in StreamNames |-> FALSE]]

\* "with utils.fake_io(write):" up to the yield: remember sys.stdout and
\* sys.stderr and put a FakeIOStream(write) in the place of each.
fake_io_enter ==
    /\ util.fn = "fake_io"
    /\ util.pc = "before"
    /\ util' = [util EXCEPT !.pc = "inside",
                            !.old = util.sys,
                            !.sys = [n \in StreamNames |-> FakeStream(n)]]
    /\ UNCHANGED bar_vars

\* The new sys of a fake_io exit that puts both old streams back.
restore_always(u) == u.old

\* The end of the fake_io block: a name that still holds fake_io's own
\* stream gets its old stream back, another one is left as it is.
restore(u) ==
    [n \in StreamNames |->
        IF u.sys[n] = FakeStream(n) THEN u.old[n] ELSE u.sys[n]]

fake_io_exit ==
    /\ util.fn = "fake_io"
    /\ util.pc = "inside"
    /\ util' = [util EXCEPT !.pc = "after", !.sys = restore(util)]
    /\ UNCHANGED bar_vars

\* sys.<name>.write(text), inside the block or after it: a FakeIOStream
\* passes the text to write (data.write in the tests), any other stream
\* keeps it.  log records the call.
sys_write(name, text) ==
    /\ util.fn = "fake_io"
    /\ util.pc \in {"inside", "after"}
    /\ Len(util.log) < MaxWrites
    /\ LET target == util.sys[name]
           entry == [name |-> name, text |-> text, pc |-> util.pc,
                     replaced |-> util.replaced[name]]
       IN util' =
            IF target = FakeStream(name)
            THEN [util EXCEPT !.data = Append(@, text),
                              !.log = Append(@, entry)]
            ELSE [util EXCEPT !.content[target] = Append(@, text),
                              !.log = Append(@, entry)]
    /\ UNCHANGED bar_vars

\* "sys.<name> = io.StringIO()" inside the block, as in
\* test_stdout_replaced and test_stderr_replaced.
sys_replace(name) ==
    /\ util.fn = "fake_io"
    /\ util.pc = "inside"
    /\ ~util.replaced[name]
    /\ util' = [util EXCEPT !.sys[name] = NewStream(name),
                            !.replaced[name] = TRUE]
    /\ UNCHANGED bar_vars

FakeIoNext ==
    \/ fake_io_enter
    \/ fake_io_exit
    \/ \E name \in StreamNames, text \in IoTexts : sys_write(name, text)
    \/ \E name \in StreamNames : sys_replace(name)

FakeIoSpec == FakeIoInit /\ [][FakeIoNext]_vars

\* ================================================================ claims

IsPrefix(p, q) == Len(p) <= Len(q) /\ SubSeq(q, 1, Len(p)) = p

\* ---------------------------------------------------------------- C1
\* C1 as stated: in every reachable state the queue is non-empty if and
\* only if the timer is active.
C1_QueueIffTimer == (text_queue # <<>>) <=> timer_active

\* C1 amended: a non-empty queue implies that the timer is active or that
\* the command widget is current (whose display stopped the timer); an
\* active timer implies only that some message has been enqueued, for the
\* timer stays active after the last pop until the next timeout.
C1_QueueTimerAmended ==
    /\ text_queue # <<>> => (timer_active \/ current = "cmd")
    /\ timer_active => enqueued # <<>>

\* The command widget was hidden with two messages pending: one was popped,
\* one is left and the timer runs.
C1_Witness ==
    /\ lastop = Op("_hide_cmd_widget", "popped")
    /\ text_queue # <<>>
    /\ timer_active
    /\ current = "txt"

\* ---------------------------------------------------------------- C2
\* C2: the pairs _pop_text has displayed are a prefix of the pairs enqueued,
\* in enqueue order, none skipped, duplicated or reordered.
C2_FifoLossless == IsPrefix(displayed, enqueued)

\* Two different pairs went through the queue and both were displayed.
C2_Witness ==
    /\ Len(displayed) >= 2
    /\ displayed[1] # displayed[2]
    /\ text_queue = <<>>

\* ---------------------------------------------------------------- C3
\* C3: a timeout on a non-empty queue removes exactly the head pair, sets
\* the error flag and the temporary text from it, keeps the other pairs in
\* order and leaves the timer active.
C3_PopHead ==
    [][(lastop'.name = "timeout" /\ text_queue # <<>>) =>
          /\ text_queue' = Tail(text_queue)
          /\ error' = Head(text_queue)[1]
          /\ temptext' = Head(text_queue)[2]
          /\ timer_active']_vars

\* A timeout has popped a pair and left another one in the queue.
C3_Witness ==
    /\ lastop.name = "timeout"
    /\ timer_active
    /\ text_queue # <<>>
    /\ displayed # <<>>
    /\ temptext = displayed[Len(displayed)][2]

\* ---------------------------------------------------------------- C4
\* C4 as stated: no step other than a timeout makes the queue shorter.
C4_OnlyTimeoutDrains ==
    [][Len(text_queue') < Len(text_queue) => lastop'.name = "timeout"]_vars

\* C4 amended: the queue gets shorter only by _pop_text, one element (the
\* head) per call, called by a timeout or by _hide_cmd_widget when it finds
\* the queue non-empty and the timer stopped.
C4_OnlyPopDrains ==
    [][Len(text_queue') < Len(text_queue) =>
          /\ text_queue' = Tail(text_queue)
          /\ \/ lastop'.name = "timeout"
             \/ lastop'.name = "_hide_cmd_widget" /\ ~timer_active]_vars

\* _hide_cmd_widget has just popped a pair.
C4_Witness ==
    /\ lastop = Op("_hide_cmd_widget", "popped")
    /\ displayed # <<>>
    /\ Len(text_queue) < Len(enqueued)

\* ---------------------------------------------------------------- C5
\* C5: a timeout that finds the queue empty sets the error flag to False
\* and the temporary text to '', stops the timer and leaves the queue empty.
C5_EmptyPop ==
    [][(lastop'.name = "timeout" /\ text_queue = <<>>) =>
          /\ error' = FALSE
          /\ temptext' = ""
          /\ ~timer_active'
          /\ text_queue' = <<>>]_vars

\* A timeout found the queue empty after an error had been displayed.
C5_Witness ==
    /\ lastop.name = "timeout"
    /\ ~timer_active
    /\ displayed # <<>>
    /\ displayed[Len(displayed)][1] = TRUE
    /\ error = FALSE
\* ---------------------------------------------------------------- C6
\* No message is enqueued, no JS status message arrives and the command
\* widget is hidden.
Quiet ==
    /\ current = "txt"
    /\ lastop.name \notin {"disp_error", "disp_temp_text",
                           "on_statusbar_message", "_show_cmd_widget"}

\* Queue empty, timer stopped, no error, no temporary text.
Idle ==
    /\ text_queue = <<>>
    /\ ~timer_active
    /\ error = FALSE
    /\ temptext = ""

\* C6: if from some point on the statusbar is left quiet, then, timeouts
\* firing whenever the timer is active, it gets back to idle.
C6_ReturnsToIdle == <>[]Quiet => []<>Idle

\* ---------------------------------------------------------------- C7
\* C7: whenever the timer is not active the error flag is False and no
\* temporary text taken from the queue is on display.
C7_TwoStates == ~timer_active => (error = FALSE /\ tempsrc # "queue")

\* ---------------------------------------------------------------- C8
\* What C8 says of an enqueue of (severity, lastop'.arg).
Enqueues(severity) ==
    /\ text_queue' = Append(text_queue, <<severity, lastop'.arg>>)
    /\ timer_active'
    /\ UNCHANGED <<passthrough, util>>
    /\ UNCHANGED <<error, temptext, normaltext, current>>

\* C8: disp_error(text) appends exactly (True, text) and disp_temp_text(text)
\* exactly (False, text) to the tail of the queue and starts the timer;
\* neither changes the error flag, the two texts, the pairs already queued
\* or the current widget.
C8_EnqueueFrame ==
    [][/\ lastop'.name = "disp_error" => Enqueues(TRUE)
       /\ lastop'.name = "disp_temp_text" => Enqueues(FALSE)]_vars

\* A message was enqueued behind another one while a third text, not the
\* new one, is on display.
C8_Witness ==
    /\ lastop.name \in {"disp_error", "disp_temp_text"}
    /\ Len(text_queue) >= 2
    /\ text_queue[Len(text_queue)][2] = lastop.arg
    /\ temptext # lastop.arg

\* ---------------------------------------------------------------- C9
\* C9: on_statusbar_message('') changes nothing; on_statusbar_message(val)
\* with a non-empty val sets the temporary text to val and changes nothing
\* else.
C9_JsMessageFrame ==
    [][lastop'.name = "on_statusbar_message" =>
          /\ temptext' = IF lastop'.arg = "" THEN temptext ELSE lastop'.arg
          /\ UNCHANGED <<passthrough, util>>
    /\ UNCHANGED <<text_queue, timer_active, timer_interval, error,
                         normaltext, current>>]_vars

\* A JS message is on display while a message waits in the queue.
C9_Witness ==
    /\ lastop.name = "on_statusbar_message"
    /\ lastop.arg # ""
    /\ temptext = lastop.arg
    /\ text_queue # <<>>

\* ---------------------------------------------------------------- C10
\* C10 as stated: once set_text(val) has been called, the persistent text
\* is the val of the last set_text call.
C10_SetTextPersists == last_set # <<>> => normaltext = last_set[1]

\* C10 amended: the persistent text set by set_text(val) stays val until
\* the next set_text, on_mode_entered(mode) or on_mode_left(mode) with mode
\* a passthrough mode: no other step changes it.
C10_SetTextOrMode ==
    [][normaltext' # normaltext =>
          \/ lastop'.name = "set_text"
          \/ /\ lastop'.name \in {"on_mode_entered", "on_mode_left"}
             /\ lastop'.arg \in passthrough]_vars

\* A text set by set_text is still there after a message went through the
\* queue and the command widget was shown.
C10_Witness ==
    /\ last_set # <<>>
    /\ normaltext = last_set[1]
    /\ normaltext \in Texts
    /\ lastop.name \notin {"set_text", "on_mode_entered", "on_mode_left"}
    /\ displayed # <<>>
    /\ current = "cmd"
\* ---------------------------------------------------------------- C11
\* The marker C11 expects for each mode, written out.
ExpectedMarker(mode) ==
    CASE mode = "normal" -> "-- NORMAL MODE --"
      [] mode = "insert" -> "-- INSERT MODE --"

\* C11: on_mode_entered(mode) sets the persistent text to the upper-cased
\* mode marker exactly when mode is a passthrough mode, on_mode_left(mode)
\* sets it to '' exactly when mode is a passthrough mode, both leave it
\* alone for other modes, and neither changes the queue, the timer, the
\* error flag or the temporary text.
C11_ModeMarker ==
    [][/\ lastop'.name = "on_mode_entered" =>
             normaltext' = IF lastop'.arg \in passthrough
                              THEN ExpectedMarker(lastop'.arg)
                              ELSE normaltext
       /\ lastop'.name = "on_mode_left" =>
             normaltext' = IF lastop'.arg \in passthrough
                              THEN ""
                              ELSE normaltext
       /\ lastop'.name \in {"on_mode_entered", "on_mode_left"} =>
             UNCHANGED <<text_queue, timer_active, timer_interval, error,
                         temptext>>]_vars

\* A passthrough mode was entered while an error is on display and a
\* message is pending: the marker is there and the rest is as it was.
C11_Witness ==
    /\ lastop = Op("on_mode_entered", "insert")
    /\ "insert" \in passthrough
    /\ normaltext = "-- INSERT MODE --"
    /\ error = TRUE
    /\ text_queue # <<>>

\* ---------------------------------------------------------------- C12
\* C12: on_config_changed(section, option) sets the timer interval to the
\* current general/message-timeout exactly for that section and option and
\* leaves it alone otherwise; it never changes the queue, the error flag,
\* the texts or whether the timer is active.
C12_ConfigFrame ==
    [][lastop'.name = "on_config_changed" =>
          /\ timer_interval' =
                IF lastop'.arg = "general/message-timeout"
                THEN message_timeout ELSE timer_interval
          /\ UNCHANGED <<text_queue, timer_active, error, temptext,
                         normaltext>>]_vars

\* The timeout was changed and taken over while the timer was running with
\* a message pending.
C12_Witness ==
    /\ lastop = Op("on_config_changed", "general/message-timeout")
    /\ timer_interval = message_timeout
    /\ timer_active
    /\ text_queue # <<>>
    /\ displayed # <<>>
\* ---------------------------------------------------------------- C16
\* C16: _show_cmd_widget stops the timer and makes the command widget
\* current; the queue, the error flag and the temporary text keep their
\* values.
C16_ShowCmdFrame ==
    [][lastop'.name = "_show_cmd_widget" =>
          /\ ~timer_active'
          /\ current' = "cmd"
          /\ UNCHANGED <<text_queue, error, temptext, normaltext,
                         timer_interval>>]_vars

\* The command widget was shown over an error with a message pending: the
\* timer is stopped, the error and the pending message are still there.
C16_Witness ==
    /\ lastop.name = "_show_cmd_widget"
    /\ current = "cmd"
    /\ ~timer_active
    /\ error = TRUE
    /\ text_queue # <<>>
    /\ temptext \in Texts

\* ---------------------------------------------------------------- C17
\* C17: _hide_cmd_widget makes the text widget current; with a non-empty
\* queue and a stopped timer it pops and displays the head and starts the
\* timer; otherwise it leaves the queue, the timer activity, the error flag
\* and the temporary text as they are.
C17_HideCmd ==
    [][lastop'.name = "_hide_cmd_widget" =>
          /\ current' = "txt"
          /\ IF text_queue # <<>> /\ ~timer_active
             THEN /\ text_queue' = Tail(text_queue)
                  /\ error' = Head(text_queue)[1]
                  /\ temptext' = Head(text_queue)[2]
                  /\ timer_active'
             ELSE UNCHANGED <<text_queue, timer_active, error,
                              temptext>>]_vars

\* The command widget was hidden with the timer running and a message
\* pending: nothing was popped.
C17_Witness ==
    /\ lastop = Op("_hide_cmd_widget", "")
    /\ current = "txt"
    /\ timer_active
    /\ text_queue # <<>>
    /\ displayed = <<>>

\* ---------------------------------------------------------------- C18
\* C18: with the text widget current and a message pending, the timer is
\* active.
C18_NotStranded ==
    (current = "txt" /\ Len(text_queue) > 0) => timer_active

\* A message was enqueued while the command widget was hidden and one had
\* been displayed already.
C18_Witness ==
    /\ lastop.name \in {"disp_error", "disp_temp_text"}
    /\ current = "txt"
    /\ Len(text_queue) > 0
    /\ displayed # <<>>
    /\ timer_active

\* ---------------------------------------------------------------- C19
\* C19: while the command widget is current the timer is not active and no
\* step that leaves it current pops a message.
C19_PausedWhileCmd ==
    [][/\ current' = "cmd" => ~timer_active'
       /\ (current = "cmd" /\ current' = "cmd") =>
             displayed' = displayed]_vars
\* ---------------------------------------------------------------- C20
\* C20: if the timeout fires whenever the timer stays active and the command
\* widget is not left shown forever, every message enqueued is eventually
\* popped by _pop_text, also when further messages keep being enqueued.
C20_EveryMessagePopped ==
    []<>(current = "txt") =>
        \A k \in 1..MaxMsgs :
            [](Len(enqueued) >= k => <>(Len(displayed) >= k))
\* ---------------------------------------------------------------- C13
\* C13: elide(text, length) raises ValueError for length < 1; for
\* length >= 1 it returns text itself when len(text) <= length and
\* otherwise the first length - 1 characters of text followed by one
\* ellipsis, never more than length characters.
C13_Elide ==
    (util.fn = "elide" /\ util.pc = "done") =>
        LET text == util.text
            length == util.length
            out == util.out
        IN IF length < 1
           THEN out = Raise("ValueError")
           ELSE /\ out.kind = "return"
                /\ Len(out.value) <= length
                /\ IF Len(text) <= length
                   THEN out.value = text
                   ELSE /\ Len(out.value) = length
                        /\ \A i \in 1..(length - 1) : out.value[i] = text[i]
                        /\ out.value[length] = ELLIPSIS

\* The test's elide('foobar', 3) == 'fo' + ELLIPSIS.
C13_Witness ==
    /\ util.fn = "elide"
    /\ util.pc = "done"
    /\ util.text = FOOBAR
    /\ util.length = 3
    /\ util.out = Return(<<"f", "o", ELLIPSIS>>)
\* ---------------------------------------------------------------- C14
\* base ** exponent
RECURSIVE Pow(_, _)
Pow(base, exponent) ==
    IF exponent = 0 THEN 1 ELSE base * Pow(base, exponent - 1)

\* C14: for number >= 1 and base >= 2, e = ceil_log(number, base) has
\* base ** e >= number and, when e > 1, base ** (e - 1) < number; for
\* number <= 0 or base <= 1 ceil_log raises ValueError.
C14_CeilLog ==
    (util.fn = "ceil_log" /\ util.pc = "done") =>
        IF util.number >= 1 /\ util.base >= 2
        THEN /\ util.out.kind = "return"
             /\ Pow(util.base, util.out.value) >= util.number
             /\ util.out.value > 1 =>
                   Pow(util.base, util.out.value - 1) < util.number
        ELSE util.out = Raise("ValueError")

\* The example of the test: ceil_log(125, 5) is 3, as 5 ** 3 = 125.
C14_Witness ==
    /\ util.fn = "ceil_log"
    /\ util.pc = "done"
    /\ util.number = 125
    /\ util.base = 5
    /\ util.out = Return(3)
\* ---------------------------------------------------------------- C15
\* The texts of the calls in log that satisfy Test, in order.
TextsOf(log, Test(_)) ==
    LET sel == SelectSeq(log, Test) IN [i \in 1..Len(sel) |-> sel[i].text]

InsideBlock(e) == e.pc = "inside"
InsideOnFake(e) == e.pc = "inside" /\ ~e.replaced

\* Every stream other than a FakeIOStream holds the texts written to the
\* name it is bound to while it was bound to it: a real stream those written
\* after the block to a name not replaced, a new stream those written since
\* it replaced the fake one.
OtherStreamsOk ==
    \A n \in StreamNames :
       LET AfterReal(e) == e.name = n /\ e.pc = "after" /\ ~e.replaced
           OnNew(e) == e.name = n /\ e.replaced
       IN /\ util.content[RealStream(n)] = TextsOf(util.log, AfterReal)
          /\ util.content[NewStream(n)] = TextsOf(util.log, OnNew)

\* After the block a name holds its old stream if and only if it was not
\* replaced inside the block, and the replacement otherwise.
RestoredOk ==
    util.pc = "after" =>
       \A n \in StreamNames :
          util.sys[n] = IF util.replaced[n] THEN NewStream(n)
                                            ELSE RealStream(n)

\* C15 as stated: every write to sys.stdout or sys.stderr made inside the
\* block is passed to write, in order, and not to the real streams; at the
\* exit a name is restored if and only if it was not replaced.
C15_FakeIoAllWrites ==
    util.fn = "fake_io" =>
       /\ util.data = TextsOf(util.log, InsideBlock)
       /\ util.pc # "after" =>
             \A n \in StreamNames : util.content[RealStream(n)] = <<>>
       /\ RestoredOk

\* C15 amended: every write made inside the block to sys.stdout or
\* sys.stderr while that name has not been replaced is passed to write, in
\* order, and none reaches the real streams; a write to a name replaced
\* inside the block goes to the replacement; at the exit a name is restored
\* if and only if it was not replaced.
C15_FakeIoWritesOnFake ==
    util.fn = "fake_io" =>
       /\ util.data = TextsOf(util.log, InsideOnFake)
       /\ util.pc # "after" =>
             \A n \in StreamNames : util.content[RealStream(n)] = <<>>
       /\ OtherStreamsOk
       /\ RestoredOk

\* test_stdout_replaced: two writes went to write, stdout was replaced in
\* the block and a write after the block reached the replacement.
C15_Witness ==
    /\ util.fn = "fake_io"
    /\ util.pc = "after"
    /\ util.data = <<"hello", "world">>
    /\ util.replaced["stdout"]
    /\ ~util.replaced["stderr"]
    /\ util.sys["stdout"] = NewStream("stdout")
    /\ util.sys["stderr"] = RealStream("stderr")
    /\ util.content[NewStream("stdout")] # <<>>
====
